---- MODULE Spec2Model ----
(***************************************************************************)
(* kbsim: src/bin/kbsim.rs.  main() either lists the layouts, types one    *)
(* string on the HID device (batch mode) or relays raw terminal input to   *)
(* it (interactive mode).  Every I/O call of main is one step of the       *)
(* model; `events` is the timeline of what the process did.                *)
(***************************************************************************)
EXTENDS Integers, Sequences, FiniteSets, TLC

\* ------------------------------------------------------------------ bounds
\* Number of characters of the batch STRING.
MaxString == 3
\* Total number of bytes stdin delivers to one interactive run.
MaxInput == 3
\* Number of stdin.read calls of one interactive run.
MaxReads == 2
\* Number of device writes that accept fewer bytes than offered.
MaxShort == 1

\* ------------------------------------------------------- program constants
\* let mut buf = [0u8; 128];
BufLen == 128
\* buf.contains(&3): the Ctrl-C byte.
CtrlC == 3
\* keyboard_layouts::HID_PACKET_LEN
HID_PACKET_LEN == 8

\* ------------------------------------------------------------------ helpers
Range(s) == {s[i] : i \in 1..Len(s)}

Min(a, b) == IF a < b THEN a ELSE b

RECURSIVE Flatten(_)
Flatten(ss) == IF ss = <<>> THEN <<>> ELSE Head(ss) \o Flatten(Tail(ss))

\* All sequences over S of length 0..n.
SeqsUpTo(S, n) == UNION {[1..k -> S] : k \in 0..n}

\* ------------------------------------------------------------ layout names
\* The bytes of a name (ASCII), so that to_lowercase is computed on them.
Bytes(name) ==
    CASE name = "list" -> <<108, 105, 115, 116>>
      [] name = "LiSt" -> <<76, 105, 83, 116>>
      [] name = "nope" -> <<110, 111, 112, 101>>
      [] name = "LAYOUT_UNITED_KINGDOM" ->
            <<76, 65, 89, 79, 85, 84, 95, 85, 78, 73, 84, 69, 68, 95,
              75, 73, 78, 71, 68, 79, 77>>
      [] name = "LAYOUT_US_ENGLISH" ->
            <<76, 65, 89, 79, 85, 84, 95, 85, 83, 95, 69, 78, 71, 76, 73, 83, 72>>

\* str::to_lowercase on ASCII names.
LowerCode(c) == IF c >= 65 /\ c <= 90 THEN c + 32 ELSE c
to_lowercase(name) == [i \in 1..Len(Bytes(name)) |-> LowerCode(Bytes(name)[i])]

\* keyboard_layouts::available_layouts(): the registered names, sorted.
available_layouts == <<"LAYOUT_UNITED_KINGDOM", "LAYOUT_US_ENGLISH">>

\* Registry resolve(name): case-insensitive match against the registered names.
LayoutKnown(name) ==
    \E i \in 1..Len(available_layouts) :
        to_lowercase(available_layouts[i]) = to_lowercase(name)

\* ------------------------------------------------------------ layout table
\* LayoutTable lookup: character (code point) -> KeyChord <<modifier, scancode>>.
\* 'h' 'i' 'H' '!' and '\n' are in the alphabet; everything else (U+0001 and
\* U+03A9 among the inputs below) is not.
SupportedChars == {104, 105, 72, 33, 10}

KeyChord(c) ==
    CASE c = 104 -> <<0, 11>>
      [] c = 105 -> <<0, 12>>
      [] c = 72  -> <<2, 11>>
      [] c = 33  -> <<2, 30>>
      [] c = 10  -> <<0, 40>>
      [] OTHER   -> <<0, 0>>

\* The press report of a chord and the all-zero release report.
PressReport(ch) == <<ch[1], 0, ch[2], 0, 0, 0, 0, 0>>
ReleaseReport == <<0, 0, 0, 0, 0, 0, 0, 0>>

\* Report Encoder: keyboard_layouts::string_to_hid_packets(layout, text).
\* <<"Err", <<>>>> on an unknown layout or an unsupported character (nothing
\* is emitted), else <<"Ok", bytes>>: per character a press then a release.
string_to_hid_packets(layout, text) ==
    IF ~LayoutKnown(layout) THEN <<"Err", <<>>>>
    ELSE IF \E i \in 1..Len(text) : text[i] \notin SupportedChars THEN <<"Err", <<>>>>
    ELSE <<"Ok", Flatten([i \in 1..Len(text) |->
                            PressReport(KeyChord(text[i])) \o ReleaseReport])>>

\* ------------------------------------------------------------------- UTF-8
IsCont(b) == b >= 128 /\ b <= 191

\* Number of bytes of the sequence a lead byte starts (0: not a lead byte).
Utf8Width(b) ==
    IF b < 128 THEN 1
    ELSE IF b >= 194 /\ b <= 223 THEN 2
    ELSE IF b >= 224 /\ b <= 239 THEN 3
    ELSE IF b >= 240 /\ b <= 244 THEN 4
    ELSE 0

\* The second byte's range is narrower after E0, ED, F0 and F4.
SecondOk(b1, b2) ==
    CASE b1 = 224 -> b2 >= 160 /\ b2 <= 191
      [] b1 = 237 -> b2 >= 128 /\ b2 <= 159
      [] b1 = 240 -> b2 >= 144 /\ b2 <= 191
      [] b1 = 244 -> b2 >= 128 /\ b2 <= 143
      [] OTHER    -> IsCont(b2)

\* std::str::from_utf8(bytes): <<TRUE, code points>> or <<FALSE, <<>>>>.
RECURSIVE from_utf8(_)
from_utf8(bytes) ==
    IF bytes = <<>> THEN <<TRUE, <<>>>>
    ELSE LET b1 == bytes[1]
             w  == Utf8Width(b1)
         IN IF w = 0 \/ Len(bytes) < w THEN <<FALSE, <<>>>>
            ELSE IF w >= 2 /\ ~SecondOk(b1, bytes[2]) THEN <<FALSE, <<>>>>
            ELSE IF \E i \in 3..w : ~IsCont(bytes[i]) THEN <<FALSE, <<>>>>
            ELSE LET cp == CASE w = 1 -> b1
                             [] w = 2 -> (b1 - 192) * 64 + (bytes[2] - 128)
                             [] w = 3 -> (b1 - 224) * 4096 + (bytes[2] - 128) * 64
                                         + (bytes[3] - 128)
                             [] OTHER -> (b1 - 240) * 262144 + (bytes[2] - 128) * 4096
                                         + (bytes[3] - 128) * 64 + (bytes[4] - 128)
                     rest == from_utf8(SubSeq(bytes, w + 1, Len(bytes)))
                 IN IF rest[1] THEN <<TRUE, <<cp>> \o rest[2]>> ELSE <<FALSE, <<>>>>

\* hid_bytes.chunks(HID_PACKET_LEN): consecutive slices, the last one shorter
\* when the length is no multiple of the size.
RECURSIVE chunks(_, _)
chunks(bytes, size) ==
    IF bytes = <<>> THEN <<>>
    ELSE <<SubSeq(bytes, 1, Min(size, Len(bytes)))>>
         \o chunks(SubSeq(bytes, Min(size, Len(bytes)) + 1, Len(bytes)), size)

\* ------------------------------------------------------------------- inputs
\* The --layout values tried.
LayoutArgs == {"LAYOUT_UNITED_KINGDOM", "list", "LiSt", "nope"}
\* Characters of the batch STRING: 'H' 'i' '!' and U+0001 (in no layout).
BatchChars == {72, 105, 33, 1}
\* Bytes stdin delivers: Ctrl-C, 'h' and the two bytes CE A9 of U+03A9, each
\* of which alone is not valid UTF-8.
InBytes == {CtrlC, 104, 206, 169}
\* What a write call that accepts fewer than `len` bytes may return.
ShortCounts(len) == {k \in {4} : k < len}

None == <<"None">>
Some(s) == <<"Some", s>>

\* -------------------------------------------------------------------- state
VARIABLES
    layout,     \* CliOpt.layout
    string,     \* CliOpt.string: None or Some(characters)
    newline,    \* CliOpt.newline
    pc,         \* where main is
    result,     \* "running", or what main returned: "Ok" / "Err"
    cause,      \* the call whose failure main returned ("" when none)
    rawMode,    \* the terminal is in raw mode
    buf,        \* the bytes of buf written so far; the rest of buf is still 0
    n,          \* the length the last read returned
    hid_bytes,  \* the bytes the last encode call returned
    idx,        \* the packet of hid_bytes the loop is at
    rem,        \* inside fs::write: the bytes write_all has still to write
    events,     \* timeline of the process's calls
    reads,      \* stdin.read calls made
    bytesIn,    \* bytes read from stdin
    shorts      \* short device writes so far

vars == <<layout, string, newline, pc, result, cause, rawMode, buf, n,
          hid_bytes, idx, rem, events, reads, bytesIn, shorts>>

args == <<layout, string, newline>>

\* b[i] of a 128-byte array of which b holds the bytes written so far.
ByteAt(b, i) == IF i <= Len(b) THEN b[i] ELSE 0
\* b.contains(&x): over the whole array, not only the first n bytes.
Contains(b, x) == \E i \in 1..BufLen : ByteAt(b, i) = x
\* &buf[..n]
Chunk == SubSeq(buf, 1, n)

\* for packet in hid_bytes.chunks(HID_PACKET_LEN)
Packets_Merged == chunks(hid_bytes, 2 * HID_PACKET_LEN)

Packets == chunks(hid_bytes, HID_PACKET_LEN)

\* IsList comparing the name as it was given, letter case included.
IsList_CaseSensitive == Bytes(layout) = Bytes("list")

\* layout.to_lowercase() == "list"
IsList == to_lowercase(layout) = Bytes("list")

Init ==
    /\ layout \in LayoutArgs
    /\ string \in {None} \cup {Some(s) : s \in SeqsUpTo(BatchChars, MaxString)}
    \* interactive mode never reads CliOpt.newline: one value of it is tried
    /\ newline \in (IF string = None /\ ~IsList THEN {FALSE} ELSE BOOLEAN)
    /\ pc = "start"
    /\ result = "running"
    /\ cause = ""
    /\ rawMode = FALSE
    /\ buf = <<>>
    /\ n = 0
    /\ hid_bytes = <<>>
    /\ idx = 1
    /\ rem = <<>>
    /\ events = <<>>
    /\ reads = 0
    /\ bytesIn = 0
    /\ shorts = 0

\* main returns: Ok(()) or the error of the call named `why`.
Return(res, why) ==
    /\ pc' = "done"
    /\ result' = res
    /\ cause' = why

Goto(l) ==
    /\ pc' = l
    /\ UNCHANGED <<result, cause>>

Log(es) == events' = events \o es

\* ---------------------------------------------------------- layout listing
\* if layout.to_lowercase() == "list" { println each layout; return Ok(()) }
ListLayouts ==
    /\ pc = "start"
    /\ IsList
    /\ Log([i \in 1..Len(available_layouts) |-> <<"println", available_layouts[i]>>])
    /\ Return("Ok", "")
    /\ UNCHANGED <<args, rawMode, buf, n, hid_bytes, idx, rem, reads, bytesIn, shorts>>

\* --------------------------------------------------------------- batch mode
\* BatchText without the newline the flag asks for.
BatchText_NoNewline == string[2]

\* The text batch mode encodes: string.push('\n') when --newline.
BatchText == IF newline THEN Append(string[2], 10) ELSE string[2]

\* The longest prefix of a text whose characters the layout all supports.
RECURSIVE SupportedPrefix(_)
SupportedPrefix(text) ==
    IF text = <<>> \/ Head(text) \notin SupportedChars THEN <<>>
    ELSE <<Head(text)>> \o SupportedPrefix(Tail(text))

\* BatchEncode writing each character's reports as it goes: the characters
\* before an unsupported one are typed before the error is returned.
BatchEncode_WriteAsYouGo ==
    /\ pc = "start"
    /\ ~IsList
    /\ string # None
    /\ LET r == string_to_hid_packets(layout, BatchText)
           p == IF LayoutKnown(layout)
                THEN chunks(string_to_hid_packets(layout, SupportedPrefix(BatchText))[2],
                            HID_PACKET_LEN)
                ELSE <<>>
       IN IF r[1] = "Err"
          THEN /\ Return("Err", "encode")
               /\ Log(Flatten([i \in 1..Len(p) |->
                        << <<"call_write", p[i]>>, <<"dev_write", p[i], Len(p[i])>> >>]))
               /\ UNCHANGED <<hid_bytes, idx>>
          ELSE /\ hid_bytes' = r[2]
               /\ idx' = 1
               /\ Goto("b_delay")
               /\ UNCHANGED events
    /\ UNCHANGED <<args, rawMode, buf, n, rem, reads, bytesIn, shorts>>

\* BatchEncode with the start delay waited before the text is encoded.
BatchEncode_DelayFirst ==
    /\ pc = "start"
    /\ ~IsList
    /\ string # None
    /\ Log(<< <<"sleep_delay">> >>)
    /\ LET r == string_to_hid_packets(layout, BatchText)
       IN IF r[1] = "Err"
          THEN /\ Return("Err", "encode")
               /\ UNCHANGED <<hid_bytes, idx>>
          ELSE /\ hid_bytes' = r[2]
               /\ idx' = 1
               /\ Goto("b_loop")
    /\ UNCHANGED <<args, rawMode, buf, n, rem, reads, bytesIn, shorts>>

\* string.push('\n') when --newline, then string_to_hid_packets(...)?
BatchEncode ==
    /\ pc = "start"
    /\ ~IsList
    /\ string # None
    /\ LET r == string_to_hid_packets(layout, BatchText)
       IN IF r[1] = "Err"
          THEN /\ Return("Err", "encode")
               /\ UNCHANGED <<hid_bytes, idx>>
          ELSE /\ hid_bytes' = r[2]
               /\ idx' = 1
               /\ Goto("b_delay")
    /\ UNCHANGED <<args, rawMode, buf, n, rem, events, reads, bytesIn, shorts>>

\* thread::sleep(Duration::from_secs(delay))
BatchDelay ==
    /\ pc = "b_delay"
    /\ Log(<< <<"sleep_delay">> >>)
    /\ Goto("b_loop")
    /\ UNCHANGED <<args, rawMode, buf, n, hid_bytes, idx, rem, reads, bytesIn, shorts>>

\* for packet in hid_bytes.chunks(HID_PACKET_LEN): fs::write(&hid_file, packet)?
\* begins by creating/opening the file; the loop ends after the last packet.
BatchWriteCall ==
    /\ pc = "b_loop"
    /\ idx <= Len(Packets)
    /\ \/ /\ Log(<< <<"call_write", Packets[idx]>> >>)
          /\ rem' = Packets[idx]
          /\ Goto("b_sys")
       \/ /\ Return("Err", "dev_open")
          /\ UNCHANGED <<rem, events>>
    /\ UNCHANGED <<args, rawMode, buf, n, hid_bytes, idx, reads, bytesIn, shorts>>

\* fs::write's write_all: one write system call on the remaining bytes.  A
\* short count loops on the rest; an error (a count of 0 is made one,
\* ErrorKind::WriteZero) is returned.
BatchSyscall ==
    /\ pc = "b_sys"
    /\ \/ /\ Log(<< <<"dev_write", rem, Len(rem)>> >>)
          /\ rem' = <<>>
          /\ Goto("b_cool")
          /\ UNCHANGED shorts
       \/ \E k \in ShortCounts(Len(rem)) :
            /\ shorts < MaxShort
            /\ shorts' = shorts + 1
            /\ Log(<< <<"dev_write", rem, k>> >>)
            /\ rem' = SubSeq(rem, k + 1, Len(rem))
            /\ Goto("b_sys")
       \/ /\ Log(<< <<"dev_err">> >>)
          /\ Return("Err", "dev_write")
          /\ UNCHANGED <<rem, shorts>>
    /\ UNCHANGED <<args, rawMode, buf, n, hid_bytes, idx, reads, bytesIn>>

\* thread::sleep(Duration::from_millis(cooldown)), then the next packet.
BatchCooldown ==
    /\ pc = "b_cool"
    /\ Log(<< <<"sleep_cooldown">> >>)
    /\ idx' = idx + 1
    /\ Goto("b_loop")
    /\ UNCHANGED <<args, rawMode, buf, n, hid_bytes, rem, reads, bytesIn, shorts>>

\* The for loop is exhausted: main falls through to Ok(()).
BatchDone ==
    /\ pc = "b_loop"
    /\ idx > Len(Packets)
    /\ Return("Ok", "")
    /\ UNCHANGED <<args, rawMode, buf, n, hid_bytes, idx, rem, events, reads, bytesIn, shorts>>

\* --------------------------------------------------------- interactive mode
\* eprintln!("Reading from stdin"); OpenOptions::new().write(true).open(hid_file)?
InteractiveOpen ==
    /\ pc = "start"
    /\ ~IsList
    /\ string = None
    /\ Log(<< <<"diag", "reading">> >>)
    /\ \/ Goto("i_raw")
       \/ Return("Err", "dev_open")
    /\ UNCHANGED <<args, rawMode, buf, n, hid_bytes, idx, rem, reads, bytesIn, shorts>>

\* term.act(terminal::Action::EnableRawMode)?
EnableRawMode ==
    /\ pc = "i_raw"
    /\ \/ /\ rawMode' = TRUE
          /\ Log(<< <<"raw_on">> >>)
          /\ Goto("i_read")
       \/ /\ Return("Err", "enable_raw")
          /\ UNCHANGED <<rawMode, events>>
    /\ UNCHANGED <<args, buf, n, hid_bytes, idx, rem, reads, bytesIn, shorts>>

\* buf after a read of `chunk`: the first Len(chunk) bytes are overwritten,
\* the bytes an earlier, longer read left behind stay.
BufAfter(chunk) == chunk \o SubSeq(buf, Len(chunk) + 1, Len(buf))

\* while let Ok(n) = stdin.read(&mut buf[..]): a failed read ends the loop.
ReadError ==
    /\ pc = "i_read"
    /\ reads < MaxReads
    /\ reads' = reads + 1
    /\ Log(<< <<"read_err">> >>)
    /\ Goto("i_disable")
    /\ UNCHANGED <<args, rawMode, buf, n, hid_bytes, idx, rem, bytesIn, shorts>>

\* ReadZero taking a read of zero bytes for the end of the input.
ReadZero_EndOfInput ==
    /\ pc = "i_read"
    /\ reads < MaxReads
    /\ reads' = reads + 1
    /\ n' = 0
    /\ Log(<< <<"read", <<>>>> >>)
    /\ Goto("i_disable")
    /\ UNCHANGED <<args, rawMode, buf, hid_bytes, idx, rem, bytesIn, shorts>>

\* Ok(0): if n == 0 { continue; }
ReadZero ==
    /\ pc = "i_read"
    /\ reads < MaxReads
    /\ reads' = reads + 1
    /\ n' = 0
    /\ Log(<< <<"read", <<>>>> >>)
    /\ Goto("i_read")
    /\ UNCHANGED <<args, rawMode, buf, hid_bytes, idx, rem, bytesIn, shorts>>

\* What the loop body does with a read of n > 0 bytes, buf' holding them:
\* break when buf contains the byte 3, else match from_utf8(&buf[..n]):
\* Ok(text) goes on to the echo, Err(e) prints the diagnostic and reads again.
Dispatch_DecodeFatal(chunk) ==
    IF Contains(buf', CtrlC)
    THEN /\ Log(<< <<"read", chunk>>, <<"break">> >>)
         /\ Goto("i_disable")
    ELSE IF from_utf8(chunk)[1]
    THEN /\ Log(<< <<"read", chunk>> >>)
         /\ Goto("i_echo")
    ELSE /\ Log(<< <<"read", chunk>>, <<"diag", "decode">> >>)
         /\ Return("Err", "decode")

\* Dispatch with a Ctrl-C that does not end the loop: the relay reads on.
Dispatch_BreakResumes(chunk) ==
    IF Contains(buf', CtrlC)
    THEN /\ Log(<< <<"read", chunk>>, <<"break">> >>)
         /\ Goto("i_read")
    ELSE IF from_utf8(chunk)[1]
    THEN /\ Log(<< <<"read", chunk>> >>)
         /\ Goto("i_echo")
    ELSE /\ Log(<< <<"read", chunk>>, <<"diag", "decode">> >>)
         /\ Goto("i_read")

\* Dispatch with the Ctrl-C test made only on chunks that decode: a chunk
\* that is not valid UTF-8 is skipped even when it holds the byte 3, and the
\* byte stays in the buffer.
Dispatch_CtrlCAfterDecode(chunk) ==
    IF ~from_utf8(chunk)[1]
    THEN /\ Log(<< <<"read", chunk>>, <<"diag", "decode">> >>)
         /\ Goto("i_read")
    ELSE IF Contains(buf', CtrlC)
    THEN /\ Log(<< <<"read", chunk>>, <<"break">> >>)
         /\ Goto("i_disable")
    ELSE /\ Log(<< <<"read", chunk>> >>)
         /\ Goto("i_echo")

Dispatch(chunk) ==
    IF Contains(buf', CtrlC)
    THEN /\ Log(<< <<"read", chunk>>, <<"break">> >>)
         /\ Goto("i_disable")
    ELSE IF from_utf8(chunk)[1]
    THEN /\ Log(<< <<"read", chunk>> >>)
         /\ Goto("i_echo")
    ELSE /\ Log(<< <<"read", chunk>>, <<"diag", "decode">> >>)
         /\ Goto("i_read")

\* Ok(n), n > 0: the bytes land in buf[..n].
ReadChunk ==
    /\ pc = "i_read"
    /\ reads < MaxReads
    /\ \E chunk \in SeqsUpTo(InBytes, Min(MaxInput - bytesIn, BufLen)) :
         /\ chunk # <<>>
         /\ reads' = reads + 1
         /\ bytesIn' = bytesIn + Len(chunk)
         /\ buf' = BufAfter(chunk)
         /\ n' = Len(chunk)
         /\ Dispatch(chunk)
    /\ UNCHANGED <<args, rawMode, hid_bytes, idx, rem, shorts>>

\* term.write(&buf[..n])?
Echo ==
    /\ pc = "i_echo"
    /\ \/ /\ Log(<< <<"echo", Chunk>> >>)
          /\ Goto("i_echoflush")
       \/ /\ Return("Err", "echo_write")
          /\ UNCHANGED events
    /\ UNCHANGED <<args, rawMode, buf, n, hid_bytes, idx, rem, reads, bytesIn, shorts>>

\* term.flush()?
EchoFlush ==
    /\ pc = "i_echoflush"
    /\ \/ /\ Log(<< <<"echo_flush">> >>)
          /\ Goto("i_encode")
       \/ /\ Return("Err", "echo_flush")
          /\ UNCHANGED events
    /\ UNCHANGED <<args, rawMode, buf, n, hid_bytes, idx, rem, reads, bytesIn, shorts>>

\* InteractiveEncode writing each character's reports as it goes: the
\* characters of the chunk before an unsupported one are typed before the
\* error is returned.
InteractiveEncode_WriteAsYouGo ==
    /\ pc = "i_encode"
    /\ LET text == from_utf8(Chunk)[2]
           r == string_to_hid_packets(layout, text)
           p == IF LayoutKnown(layout)
                THEN chunks(string_to_hid_packets(layout, SupportedPrefix(text))[2],
                            HID_PACKET_LEN)
                ELSE <<>>
       IN IF r[1] = "Err"
          THEN /\ Return("Err", "encode")
               /\ Log(Flatten([i \in 1..Len(p) |->
                        << <<"call_write", p[i]>>, <<"dev_write", p[i], Len(p[i])>> >>]))
               /\ UNCHANGED <<hid_bytes, idx>>
          ELSE /\ hid_bytes' = r[2]
               /\ idx' = 1
               /\ Goto("i_loop")
               /\ UNCHANGED events
    /\ UNCHANGED <<args, rawMode, buf, n, rem, reads, bytesIn, shorts>>

\* let hid_bytes = string_to_hid_packets(&layout, text).map_err(...)?
InteractiveEncode ==
    /\ pc = "i_encode"
    /\ LET r == string_to_hid_packets(layout, from_utf8(Chunk)[2])
       IN IF r[1] = "Err"
          THEN /\ Return("Err", "encode")
               /\ UNCHANGED <<hid_bytes, idx>>
          ELSE /\ hid_bytes' = r[2]
               /\ idx' = 1
               /\ Goto("i_loop")
    /\ UNCHANGED <<args, rawMode, buf, n, rem, events, reads, bytesIn, shorts>>

\* hid_file.write(packet)?: Ok(k) is not looked at, whatever k is.
InteractiveWrite ==
    /\ pc = "i_loop"
    /\ idx <= Len(Packets)
    /\ \/ /\ Log(<< <<"call_write", Packets[idx]>>,
                    <<"dev_write", Packets[idx], Len(Packets[idx])>> >>)
          /\ Goto("i_devflush")
          /\ UNCHANGED shorts
       \/ \E k \in ShortCounts(Len(Packets[idx])) :
            /\ shorts < MaxShort
            /\ shorts' = shorts + 1
            /\ Log(<< <<"call_write", Packets[idx]>>, <<"dev_write", Packets[idx], k>> >>)
            /\ Goto("i_devflush")
       \/ /\ Log(<< <<"call_write", Packets[idx]>>, <<"dev_err">> >>)
          /\ Return("Err", "dev_write")
          /\ UNCHANGED shorts
    /\ UNCHANGED <<args, rawMode, buf, n, hid_bytes, idx, rem, reads, bytesIn>>

\* hid_file.flush()?, then the next packet.
InteractiveFlush ==
    /\ pc = "i_devflush"
    /\ \/ /\ Log(<< <<"dev_flush">> >>)
          /\ idx' = idx + 1
          /\ Goto("i_loop")
       \/ /\ Return("Err", "dev_flush")
          /\ UNCHANGED <<events, idx>>
    /\ UNCHANGED <<args, rawMode, buf, n, hid_bytes, rem, reads, bytesIn, shorts>>

\* The for loop is exhausted: back to the while loop's read.
InteractiveNext ==
    /\ pc = "i_loop"
    /\ idx > Len(Packets)
    /\ Goto("i_read")
    /\ UNCHANGED <<args, rawMode, buf, n, hid_bytes, idx, rem, events, reads, bytesIn, shorts>>

\* After the loop: term.act(terminal::Action::DisableRawMode)?; Ok(())
DisableRawMode ==
    /\ pc = "i_disable"
    /\ \/ /\ rawMode' = FALSE
          /\ Log(<< <<"raw_off">> >>)
          /\ Return("Ok", "")
       \/ /\ Return("Err", "disable_raw")
          /\ UNCHANGED <<rawMode, events>>
    /\ UNCHANGED <<args, buf, n, hid_bytes, idx, rem, reads, bytesIn, shorts>>

Next ==
    \/ ListLayouts
    \/ BatchEncode
    \/ BatchDelay
    \/ BatchWriteCall
    \/ BatchSyscall
    \/ BatchCooldown
    \/ BatchDone
    \/ InteractiveOpen
    \/ EnableRawMode
    \/ ReadError
    \/ ReadZero
    \/ ReadChunk
    \/ Echo
    \/ EchoFlush
    \/ InteractiveEncode
    \/ InteractiveWrite
    \/ InteractiveFlush
    \/ InteractiveNext
    \/ DisableRawMode

Spec == Init /\ [][Next]_vars

\* ------------------------------------------------- reading the timeline
Batch == ~IsList /\ string # None
Interactive == ~IsList /\ string = None
Done == pc = "done"

IsPrefix(a, b) == Len(a) <= Len(b) /\ a = SubSeq(b, 1, Len(a))

\* The events of one kind, in order, and the places they are at.
OfKind(k) == SelectSeq(events, LAMBDA e : e[1] = k)
At(k) == {i \in 1..Len(events) : events[i][1] = k}
Payloads(es) == [i \in 1..Len(es) |-> es[i][2]]

\* The reports of a text: per character its press report, then the release.
Reports(text) ==
    [i \in 1..(2 * Len(text)) |->
        IF i % 2 = 1 THEN PressReport(KeyChord(text[(i + 1) \div 2])) ELSE ReleaseReport]

\* The non-empty chunks read so far and all the bytes read, in order.
ChunksRead == Payloads(OfKind("read"))
InputRead == Flatten(ChunksRead)
\* A chunk containing the byte 3 has been read.
CtrlCRead == \E i \in 1..Len(ChunksRead) : CtrlC \in Range(ChunksRead[i])

\* The payload handed to each write call of main, and what each write system
\* call on the device was offered.
Written == Payloads(OfKind("call_write"))
Offered == Payloads(OfKind("dev_write"))
\* The whole reports the device accepted in one write.
Delivered ==
    Payloads(SelectSeq(events, LAMBDA e :
        e[1] = "dev_write" /\ Len(e[2]) = HID_PACKET_LEN /\ e[3] = HID_PACKET_LEN))

\* ------------------------------------------------------------------ claims

\* C1: in interactive mode, on every path by which the run ends after raw
\* mode was enabled (Ctrl-C, a failed echo write or flush, an encoding
\* failure, a failed device write or flush), raw mode has been disabled:
\* no final state has raw mode still enabled.  (A run that ends because
\* DisableRawMode itself failed is left out: the claim does not name it.)
C1_RawModeReleasedOnEveryExit ==
    (Done /\ LayoutKnown(layout) /\ At("raw_on") # {} /\ cause # "disable_raw")
        => ~rawMode

\* C2: in interactive mode a chunk that decodes as valid text but holds a
\* character the layout does not support does not end the session: no run
\* with a known layout ends with the encoder's error.
C2_UnsupportedCharacterContinues ==
    (Interactive /\ LayoutKnown(layout)) => ~(Done /\ cause = "encode")

\* The input read is supported text followed by one byte 3, its last byte.
SupportedThenCtrlC ==
    /\ InputRead # <<>>
    /\ InputRead[Len(InputRead)] = CtrlC
    /\ \A i \in 1..(Len(InputRead) - 1) : InputRead[i] \in SupportedChars

\* C3: for every input made of supported text followed by the byte 3, and
\* every way of splitting it into read chunks, once the relay has terminated
\* the reports of every character before the byte 3 have been written to the
\* device, in order, and raw mode is disabled.
C3_TextBeforeCtrlCIsTyped ==
    (/\ Interactive /\ LayoutKnown(layout)
     /\ Done /\ result = "Ok"
     /\ SupportedThenCtrlC
     /\ shorts = 0)
    => /\ ~rawMode
       /\ Offered = Reports(SubSeq(InputRead, 1, Len(InputRead) - 1))

\* The same with the byte 3 arriving in a chunk of its own: this the code does.
C3_TextBeforeCtrlCChunkIsTyped ==
    (/\ Interactive /\ LayoutKnown(layout)
     /\ Done /\ result = "Ok"
     /\ SupportedThenCtrlC
     /\ ChunksRead[Len(ChunksRead)] = <<CtrlC>>
     /\ shorts = 0)
    => /\ ~rawMode
       /\ Offered = Reports(SubSeq(InputRead, 1, Len(InputRead) - 1))

\* A read at place i of the timeline of a chunk that is not valid UTF-8.
InvalidReadAt(i) ==
    /\ events[i][1] = "read"
    /\ events[i][2] # <<>>
    /\ ~from_utf8(events[i][2])[1]

\* The chunk read at place i is passed over: the diagnostic follows it at
\* once, with no echo and no device write; raw mode stays enabled and the
\* relay is back at the read; the next event is the next read, and a valid
\* chunk that read brings is echoed as usual.
SkippedAt(i) ==
    /\ i + 1 <= Len(events)
    /\ events[i + 1] = <<"diag", "decode">>
    /\ i + 1 = Len(events) => (pc = "i_read" /\ rawMode /\ result = "running")
    /\ i + 2 <= Len(events) => events[i + 2][1] \in {"read", "read_err"}
    /\ (/\ i + 3 <= Len(events)
        /\ events[i + 2][1] = "read"
        /\ events[i + 2][2] # <<>>
        /\ CtrlC \notin Range(events[i + 2][2])
        /\ from_utf8(events[i + 2][2])[1])
       => events[i + 3] = <<"echo", events[i + 2][2]>>

\* C4 as stated: in interactive mode a chunk that is not valid UTF-8 causes a
\* diagnostic, no echo and no device write, leaves raw mode enabled, and the
\* relay goes on to read and process later chunks.
C4_InvalidChunkIsSkipped ==
    \A i \in 1..Len(events) : InvalidReadAt(i) => SkippedAt(i)

\* C4 amended: the same for a chunk that is not valid UTF-8 and does not
\* contain the byte 3 (one that does ends the relay, with no diagnostic).
C4_InvalidChunkWithoutCtrlCIsSkipped ==
    \A i \in 1..Len(events) :
        (InvalidReadAt(i) /\ CtrlC \notin Range(events[i][2])) => SkippedAt(i)

\* An invalid chunk was passed over and a later chunk reached the device.
C4_Witness ==
    \E i \in 1..Len(events) :
        /\ InvalidReadAt(i)
        /\ CtrlC \notin Range(events[i][2])
        /\ \E j \in At("dev_write") : j > i

\* C5 as stated: in batch mode, whenever the run ends in an error (unknown
\* layout, unsupported character or an I/O failure) no report has been
\* written to the device.
C5_FailedBatchWritesNothing ==
    (Batch /\ Done /\ result = "Err") => Delivered = <<>>

\* C5 amended: a batch run that ends in an encoding error (unknown layout or
\* unsupported character) has written nothing to the device; one that ends
\* in an I/O failure has handed the device only reports that precede the
\* failing write, a prefix of the encoded reports short of the whole.
C5_FailedBatchWritesOnlyBeforeIoFailure ==
    (Done /\ result = "Err" /\ Batch) =>
        IF cause = "encode"
        THEN Offered = <<>> /\ Written = <<>>
        ELSE /\ cause \in {"dev_open", "dev_write"}
             /\ IsPrefix(Written, Reports(BatchText))
             /\ idx <= Len(Reports(BatchText))
             /\ Len(Written) \in {idx - 1, idx}

\* A batch string with a supported character before an unsupported one failed.
C5_Witness ==
    /\ Batch /\ Done /\ cause = "encode"
    /\ LayoutKnown(layout)
    /\ Len(string[2]) >= 2
    /\ string[2][1] \in SupportedChars

\* The reports a chunk should reach the device with: none when it contains
\* the byte 3, is not valid UTF-8 or cannot be encoded.
ChunkReports(c) ==
    IF CtrlC \in Range(c) \/ ~from_utf8(c)[1] THEN <<>>
    ELSE IF string_to_hid_packets(layout, from_utf8(c)[2])[1] = "Err" THEN <<>>
    ELSE Reports(from_utf8(c)[2])

\* The place of the first read (or failed read) at or after place j, or one
\* past the end of the timeline.
RECURSIVE NextReadFrom(_)
NextReadFrom(j) ==
    IF j > Len(events) \/ events[j][1] \in {"read", "read_err"} THEN j
    ELSE NextReadFrom(j + 1)

\* The payloads of the write calls between places i and j of the timeline.
WrittenBetween(i, j) ==
    Payloads(SelectSeq(SubSeq(events, i + 1, j - 1), LAMBDA e : e[1] = "call_write"))

\* The write calls that follow the read at place i, up to the next read, are
\* the chunk's reports in order: a prefix of them while the chunk is being
\* written, all of them once the next read has been made.
ChunkWrittenAt(i) ==
    LET next == NextReadFrom(i + 1)
        done == WrittenBetween(i, next)
        want == ChunkReports(events[i][2])
    IN IF next <= Len(events) THEN done = want ELSE IsPrefix(done, want)

\* C6: in both modes the reports of one encode call are handed to the device
\* in the order the encoder produced them, one whole report of HID_PACKET_LEN
\* bytes per write call, none dropped, duplicated or merged; in interactive
\* mode the reports of a chunk are all written before the next chunk is read.
\* While no write has come back short, each write system call carries exactly
\* the report of its write call.
C6_ReportsWrittenInOrderOnePerCall ==
    /\ \A i \in 1..Len(events) :
         events[i][1] = "call_write" => Len(events[i][2]) = HID_PACKET_LEN
    /\ string # None =>
        /\ IsPrefix(Written, IF string_to_hid_packets(layout, BatchText)[1] = "Ok"
                             THEN Reports(BatchText) ELSE <<>>)
        /\ (Done /\ result = "Ok" /\ ~IsList) => Written = Reports(BatchText)
    /\ string = None =>
        /\ Written = <<>> \/ NextReadFrom(1) < NextReadFrom(Len(events) + 1)
        /\ \A i \in 1..(NextReadFrom(1) - 1) : events[i][1] # "call_write"
        /\ \A i \in 1..Len(events) : events[i][1] = "read" => ChunkWrittenAt(i)
    /\ shorts = 0 =>
        /\ IsPrefix(Offered, Written)
        /\ Len(Offered) >= Len(Written) - 1

\* Two chunks of supported text have been relayed in full, one after the other.
C6_Witness ==
    /\ Interactive
    /\ pc = "i_read"
    /\ Len(ChunksRead) = 2
    /\ ChunkReports(ChunksRead[1]) # <<>>
    /\ ChunkReports(ChunksRead[2]) # <<>>
    /\ Written = ChunkReports(ChunksRead[1]) \o ChunkReports(ChunksRead[2])
    /\ Offered = Written

\* C7: streaming N reports in batch mode, the inter-report delay is waited
\* exactly N-1 times, each time between two consecutive writes, and never
\* after the last write (not at all when N is 0 or 1).
C7_CooldownOnlyBetweenWrites ==
    (Batch /\ Done /\ result = "Ok") =>
        /\ Cardinality(At("sleep_cooldown")) =
             (IF Written = <<>> THEN 0 ELSE Len(Written) - 1)
        /\ \A k \in At("sleep_cooldown") :
             \E i, j \in At("call_write") : i < k /\ k < j

\* C8: in interactive mode the inter-report delay is waited between any two
\* consecutive reports written for the same chunk, and no start delay is
\* waited.
C8_CooldownBetweenInteractiveReports ==
    Interactive =>
        /\ At("sleep_delay") = {}
        /\ \A i, j \in At("call_write") :
             (i < j /\ ~\E r \in At("read") : i < r /\ r < j)
                => \E k \in At("sleep_cooldown") : i < k /\ k < j

\* The device write at place i accepted fewer bytes than it was offered.
ShortWriteAt(i) ==
    events[i][1] = "dev_write" /\ events[i][3] < Len(events[i][2])

\* C9: a device write that accepts fewer bytes than the report length aborts
\* the whole operation with an I/O error, in both modes: the rest of the
\* report is not retried and no later report is written.
C9_ShortWriteAborts ==
    \A i \in 1..Len(events) :
        ShortWriteAt(i) =>
            /\ Done => result = "Err"
            /\ \A j \in At("dev_write") \cup At("call_write") : j <= i

\* C10: an interactive run ends successfully only if a chunk containing the
\* byte 3 has been read; a failed read of the input ends it in failure.
C10_SuccessOnlyAfterCtrlC ==
    (Interactive /\ LayoutKnown(layout) /\ Done) =>
        /\ result = "Ok" => CtrlCRead
        /\ At("read_err") # {} => result = "Err"

\* Raw mode has been enabled at some point of the run.
RawModeEntered == \E i \in 1..Len(events) : events[i][1] = "raw_on"

\* C11: in interactive mode an unknown layout name never surfaces as an
\* error after the relay has entered raw mode: the layout is known to be
\* valid before raw mode is enabled and before any chunk is read or echoed,
\* so a run that has enabled raw mode has a registered layout.
C11_LayoutValidBeforeRawMode ==
    (Interactive /\ Done /\ cause = "encode" /\ RawModeEntered) => LayoutKnown(layout)

\* The chunk read at place i of the timeline is text the encoder rejects.
EncodeFailsAt(i) ==
    /\ events[i][1] = "read"
    /\ CtrlC \notin Range(events[i][2])
    /\ from_utf8(events[i][2])[1]
    /\ string_to_hid_packets(layout, from_utf8(events[i][2])[2])[1] = "Err"

\* C12: in interactive mode, for a chunk whose encoding fails on an
\* unsupported character at any position, zero reports of that chunk are
\* written to the device, the reports of the supported characters before
\* that position included: no write call and no write system call follows
\* the read of such a chunk.
C12_FailedChunkWritesNothing ==
    \A i \in 1..Len(events) :
        EncodeFailsAt(i) =>
            \A j \in (i + 1)..Len(events) : events[j][1] \notin {"call_write", "dev_write"}

\* A chunk of a supported character followed by an unsupported one has been
\* read and echoed, and its encoding has failed.
C12_Witness ==
    /\ Interactive /\ Done /\ cause = "encode"
    /\ LayoutKnown(layout)
    /\ Len(ChunksRead) >= 1
    /\ ChunksRead[Len(ChunksRead)] = <<104, 206, 169>>

\* C13: in batch mode with the append-newline flag set and a text of n
\* supported characters, a run that ends successfully has handed the device
\* exactly 2*(n+1) reports: for each character of the text followed by one
\* newline, a press report then an all-zero release report, in text order,
\* the last press being the Enter chord; with the flag clear, exactly 2*n.
\* While no write has come back short the write system calls are these
\* same reports.
C13_BatchReportCount ==
    (Batch /\ Done /\ result = "Ok") =>
        LET text == string[2]
            typed == IF newline THEN text \o <<10>> ELSE text
        IN /\ Range(text) \subseteq SupportedChars
           /\ Len(Written) = IF newline THEN 2 * (Len(text) + 1) ELSE 2 * Len(text)
           /\ \A i \in 1..Len(Written) :
                Written[i] = IF i % 2 = 1
                             THEN PressReport(KeyChord(typed[(i + 1) \div 2]))
                             ELSE <<0, 0, 0, 0, 0, 0, 0, 0>>
           /\ newline => Written[Len(Written) - 1] = <<0, 0, 40, 0, 0, 0, 0, 0>>
           /\ shorts = 0 => Offered = Written

\* "Hi!" with the newline flag has been typed in full: 8 reports.
C13_Witness ==
    /\ Batch /\ Done /\ result = "Ok"
    /\ newline
    /\ string[2] = <<72, 105, 33>>
    /\ Len(Written) = 8
    /\ Offered = Written

\* C14: once the relay has read a chunk containing the byte 3 it is
\* terminated for good: no further read is made, nothing more is echoed and
\* no further report is written to the device; all that follows the read is
\* the leaving of the loop and the disabling of raw mode.
C14_TerminatedIsAbsorbing ==
    /\ \A i \in 1..Len(events) :
         (events[i][1] = "read" /\ CtrlC \in Range(events[i][2])) =>
             \A j \in (i + 1)..Len(events) : events[j][1] \in {"break", "raw_off"}
    /\ (Interactive /\ CtrlCRead) => pc \in {"i_disable", "done"}

\* After a chunk of text has been relayed, a chunk containing the byte 3 was
\* read and the run has ended.
C14_Witness ==
    /\ Interactive /\ Done
    /\ Len(ChunksRead) = 2
    /\ CtrlC \notin Range(ChunksRead[1])
    /\ CtrlC \in Range(ChunksRead[2])
    /\ Written # <<>>

\* How many times the start delay has been waited.
RECURSIVE DelaysFrom(_)
DelaysFrom(i) ==
    IF i > Len(events) THEN 0
    ELSE (IF events[i][1] = "sleep_delay" THEN 1 ELSE 0) + DelaysFrom(i + 1)

\* C15: in batch mode the start delay is waited exactly once, after the text
\* (plus the optional newline) has been encoded successfully and before the
\* first device write; when the encoding fails it is not waited at all.
C15_StartDelayOnceAfterEncode ==
    Batch =>
        LET ok == string_to_hid_packets(layout, BatchText)[1] = "Ok"
        IN /\ DelaysFrom(1) = IF ok /\ pc \notin {"start", "b_delay"} THEN 1 ELSE 0
           /\ events # <<>> => events[1][1] = "sleep_delay"
           /\ ~ok => (pc \in {"start", "done"} /\ events = <<>>)

\* The delay has been waited and the first report written after it.
C15_Witness ==
    /\ Batch
    /\ Len(events) >= 3
    /\ events[1][1] = "sleep_delay"
    /\ events[2][1] = "call_write"
    /\ events[3][1] = "dev_write"

\* Every read made so far has succeeded and returned zero bytes.
OnlyZeroReads ==
    \A i \in 1..Len(events) :
        /\ events[i][1] # "read_err"
        /\ events[i][1] = "read" => events[i][2] = <<>>

\* C16: a read that returns zero bytes in interactive mode is a no-op:
\* nothing is echoed, no report is written, raw mode stays enabled and the
\* relay is back at the read; what follows a zero-byte read on the timeline
\* is the next read.  A relay whose reads have all returned zero bytes is
\* still reading in raw mode, with nothing echoed or written: it has not
\* terminated.
C16_ZeroReadIsNoOp ==
    /\ \A i \in 1..Len(events) :
         events[i] = <<"read", <<>>>> =>
            IF i = Len(events)
            THEN pc = "i_read" /\ rawMode /\ result = "running"
            ELSE events[i + 1][1] \in {"read", "read_err"}
    /\ (Interactive /\ RawModeEntered /\ OnlyZeroReads) =>
        /\ pc = "i_read" /\ rawMode /\ result = "running"
        /\ \A i \in 1..Len(events) :
             events[i][1] \notin {"echo", "call_write", "dev_write", "break", "raw_off"}

\* Two reads in a row have returned zero bytes.
C16_Witness ==
    /\ Interactive
    /\ ChunksRead = << <<>>, <<>> >>
    /\ OnlyZeroReads
    /\ pc = "i_read" /\ rawMode

\* The layout option is the word "list", each letter in either case.
ListRequested ==
    LET given == Bytes(layout)
        word == <<108, 105, 115, 116>>
    IN /\ Len(given) = Len(word)
       /\ \A i \in 1..Len(word) : given[i] \in {word[i], word[i] - 32}

\* C17: when the layout option equals "list" in any letter case the program
\* only prints the available layout names and ends successfully: nothing is
\* encoded, no delay is waited, raw mode is never enabled, no input is read
\* and nothing is written to the device, whatever the STRING argument and
\* the newline flag are.
C17_ListOnlyPrintsLayouts ==
    ListRequested =>
        /\ pc \in {"start", "done"}
        /\ pc = "start" => events = <<>>
        /\ Done =>
            /\ result = "Ok"
            /\ events = [i \in 1..Len(available_layouts) |->
                            <<"println", available_layouts[i]>>]
        /\ ~rawMode /\ hid_bytes = <<>> /\ reads = 0 /\ bytesIn = 0

\* "LiSt" was given together with a text and the newline flag, and the
\* layout names have been printed.
C17_Witness ==
    /\ layout = "LiSt"
    /\ string # None /\ string[2] # <<>>
    /\ newline
    /\ Done
    /\ Len(events) = Len(available_layouts)

\* C18: the Ctrl-C test scans the whole 128-byte buffer, not only the n
\* bytes just read, yet the relay never terminates because of stale bytes
\* left by an earlier, longer read: whenever the test is made, and in every
\* state of the relay, the buffer contains the byte 3 if and only if the n
\* bytes of the current chunk contain it; and the loop is only ever left by
\* the test right after the read of a chunk that contains the byte 3.
C18_NoStaleCtrlC ==
    /\ Contains(buf, CtrlC) <=> (\E i \in 1..n : buf[i] = CtrlC)
    /\ \A i \in 1..Len(events) :
         events[i][1] = "break" =>
            /\ i > 1
            /\ events[i - 1][1] = "read"
            /\ CtrlC \in Range(events[i - 1][2])

\* A read shorter than an earlier one has been tested and passed on: the
\* buffer holds stale bytes after the chunk.
C18_Witness ==
    /\ Interactive
    /\ pc = "i_echo"
    /\ n > 0
    /\ Len(buf) > n

\* The chunk read at place i has been shown on the display: its bytes were
\* echoed and the display flushed before the next read.
EchoedAt(i) ==
    \E j \in (i + 1)..(NextReadFrom(i + 1) - 2) :
        /\ events[j] = <<"echo", events[i][2]>>
        /\ events[j + 1][1] = "echo_flush"

\* The chunk read at place i has been typed on the host: its reports, at
\* least one, were all handed to the device before the next read.
TypedAt(i) ==
    /\ ChunkReports(events[i][2]) # <<>>
    /\ WrittenBetween(i, NextReadFrom(i + 1)) = ChunkReports(events[i][2])

\* C19: in interactive mode the local echo and the device stream agree chunk
\* by chunk: once the relay is done with a chunk (it has gone on to the next
\* read, or the run has ended), the chunk's bytes have been echoed to the
\* display if and only if its reports have been written to the device.
C19_EchoAgreesWithDevice ==
    (Interactive /\ LayoutKnown(layout)) =>
        \A i \in 1..Len(events) :
            (events[i][1] = "read" /\ (Done \/ NextReadFrom(i + 1) <= Len(events))) =>
                (EchoedAt(i) <=> TypedAt(i))

====
